---- MODULE Spec2Model ----
(***************************************************************************)
(* Terminal File Commander (tfc): the dual-panel navigation state machine  *)
(* of src/src/index.tsx.                                                   *)
(*                                                                         *)
(* The session state is the React state of useAppState, the two            *)
(* useFileTree hook states, and the asynchronous calls in flight           *)
(* (fs.readdir issued by the useFileTree effect, fs.stat awaited by the    *)
(* Enter handler).  One action is one input event or one asynchronous      *)
(* completion.  A handler's setState calls, the render they cause and the  *)
(* effects of that render (the listing sync effects, the useFileTree       *)
(* effect that issues a new read) are part of the same action: the input   *)
(* handler of the next event is the closure of the latest render.  The     *)
(* only suspension point inside a handler is `await fs.stat`, so the       *)
(* Enter handler is two actions, Enter and StatDone, and the second one    *)
(* uses the values the closure captured when Enter was pressed.            *)
(*                                                                         *)
(* The file system is a fixed tree (paths are sequences of names).         *)
(***************************************************************************)
EXTENDS Integers, Sequences, FiniteSets, Bags, TLC

VARIABLES
    running,      \* the ink app is mounted (exit() not called yet)
    activePanel,  \* state.activePanel
    cwd,          \* state.leftCwd / state.rightCwd
    index,        \* state.leftIndex / state.rightIndex
    stFiles,      \* state.leftFiles / state.rightFiles (copy kept by the sync effect)
    stError,      \* state.leftFilesError / state.rightFilesError
    items,        \* useFileTree(...).items of each panel
    error,        \* useFileTree(...).error of each panel
    reads,        \* per panel: bag of paths whose fs.readdir is in flight
    stats,        \* bag of Enter handlers suspended at `await fs.stat`
    enters,       \* number of Enter events handled so far
    issued,       \* history: per panel, the target of the latest Enter whose target is a directory
    toggles,      \* number of Tab events processed so far, modulo 2
    fetch         \* one isolated run of fetchFileTree (specification SpecRead)

vars == <<running, activePanel, cwd, index, stFiles, stError, items, error,
          reads, stats, enters, issued, toggles, fetch>>

----------------------------------------------------------------------------
(* Bounds *)

\* The user presses Enter at most this many times in a session.
MaxEnters == 3

\* Longest readdir result given to the isolated fetchFileTree run.
MaxEntries == 3

----------------------------------------------------------------------------
(* Paths and the file system *)

Panels == {"left", "right"}

Root == <<>>

Home == <<"home">>

\* path.dirname: the root is its own parent.
dirname(p) == IF p = Root THEN Root ELSE SubSeq(p, 1, Len(p) - 1)

\* Joining the segment to the path without normalising `..` away.
resolveAppend(p, name) == Append(p, name)

\* path.resolve(currentCwd, name) for an absolute currentCwd and one segment.
resolve(p, name) == IF name = ".." THEN dirname(p) ELSE Append(p, name)

Dirent(n, d) == [name |-> n, isDirectory |-> d]

DotDot == Dirent("..", TRUE)

\* The directories of the tree; <<"home", "link">> is a symbolic link to an
\* empty directory.
DirPaths == {Root, Home, <<"home", "link">>, <<"lost">>}

FilePaths == {<<"vmlinuz">>}

\* What fs.readdir(path, {withFileTypes: true}) yields, as a set: the order
\* is the operating system's.  A symbolic link is not a directory dirent.
Dirents(p) ==
    IF p = Root THEN {Dirent("home", TRUE), Dirent("lost", TRUE), Dirent("vmlinuz", FALSE)}
    ELSE IF p = Home THEN {Dirent("link", FALSE), Dirent("gone", FALSE)}
    ELSE {}

\* fs.readdir rejects for a directory without read permission.
Readable(p) == p \in DirPaths /\ p # <<"lost">>

\* fs.stat follows links; <<"home", "gone">> is a dangling link and rejects.
StatKind(p) ==
    IF p \in DirPaths THEN "dir"
    ELSE IF p \in FilePaths THEN "file"
    ELSE "error"

----------------------------------------------------------------------------
(* Error values *)

Null == [kind |-> "null", path |-> <<>>]

ReadError(p) == [kind |-> "Error reading directory", path |-> p]

AccessError(name) == [kind |-> "Error accessing", path |-> <<name>>]

----------------------------------------------------------------------------
(* fetchFileTree: sort and the synthetic parent entry *)

\* Names in the collation order of String.prototype.localeCompare.
Collation == <<"docs", "gone", "home", "link", "lost", "notes.txt", "README", "vmlinuz">>

Rank(n) == CHOOSE i \in 1..Len(Collation) : Collation[i] = n

localeCompare(a, b) ==
    IF Rank(a) < Rank(b) THEN -1 ELSE IF Rank(a) > Rank(b) THEN 1 ELSE 0

\* compare without the directories-first tests.
compareNamesOnly(a, b) == localeCompare(a.name, b.name)

\* The comparator given to Array.prototype.sort.
compare(a, b) ==
    IF a.isDirectory /\ ~b.isDirectory THEN -1
    ELSE IF ~a.isDirectory /\ b.isDirectory THEN 1
    ELSE localeCompare(a.name, b.name)

\* Array.prototype.sort is a stable sort: insertion after the last element
\* that does not compare greater.
RECURSIVE Insert(_, _)
Insert(x, s) ==
    IF s = <<>> THEN <<x>>
    ELSE IF compare(x, s[1]) < 0 THEN <<x>> \o s
    ELSE <<s[1]>> \o Insert(x, Tail(s))

RECURSIVE sort(_)
sort(s) == IF s = <<>> THEN <<>> ELSE Insert(s[Len(s)], sort(SubSeq(s, 1, Len(s) - 1)))

\* finalItems without the synthetic parent entry.
finalItemsNoParent(targetCwd, dirents) == sort(dirents)

\* finalItems as the first draft computed it: ['..', ...files] for every path.
finalItemsAlwaysParent(targetCwd, dirents) == <<DotDot>> \o sort(dirents)

\* finalItems of fetchFileTree for the dirents in the order readdir gave them.
finalItems(targetCwd, dirents) ==
    IF targetCwd # dirname(targetCwd) THEN <<DotDot>> \o sort(dirents) ELSE sort(dirents)

\* Every order the operating system may return a directory's entries in.
Orders(S) ==
    {f \in [1..Cardinality(S) -> S] : \A i, j \in 1..Cardinality(S) : i # j => f[i] # f[j]}

----------------------------------------------------------------------------
(* Initial state: after the first render and its effects *)

NoFetch == [targetCwd |-> Root, dirents |-> <<>>, done |-> FALSE, finalItems |-> <<>>]

\* The initial state of the first draft: both panels at '/'.
InitSessionBothRoot ==
    /\ running = TRUE
    /\ activePanel = "left"
    /\ cwd = [p \in Panels |-> Root]
    /\ index = [p \in Panels |-> 0]
    /\ stFiles = [p \in Panels |-> <<>>]
    /\ stError = [p \in Panels |-> Null]
    /\ items = [p \in Panels |-> <<>>]
    /\ error = [p \in Panels |-> Null]
    /\ reads = [p \in Panels |-> SetToBag({Root})]
    /\ stats = EmptyBag
    /\ enters = 0
    /\ issued = [p \in Panels |-> Root]
    /\ toggles = 0

InitSession ==
    /\ running = TRUE
    /\ activePanel = "left"
    /\ cwd = [p \in Panels |-> IF p = "left" THEN Root ELSE Home]
    /\ index = [p \in Panels |-> 0]
    /\ stFiles = [p \in Panels |-> <<>>]
    /\ stError = [p \in Panels |-> Null]
    /\ items = [p \in Panels |-> <<>>]
    /\ error = [p \in Panels |-> Null]
    /\ reads = [p \in Panels |-> SetToBag({IF p = "left" THEN Root ELSE Home})]
    /\ stats = EmptyBag
    /\ enters = 0
    /\ issued = [p \in Panels |-> IF p = "left" THEN Root ELSE Home]
    /\ toggles = 0

Init == InitSession /\ fetch = NoFetch

----------------------------------------------------------------------------
(* Input events *)

Max(a, b) == IF a > b THEN a ELSE b

Min(a, b) == IF a < b THEN a ELSE b

\* togglePanel that can only move the focus to the right panel.
togglePanelStuck(prev) == "right"

\* key.tab: togglePanel
togglePanel(prev) == IF prev = "left" THEN "right" ELSE "left"

Tab ==
    /\ running
    /\ activePanel' = togglePanel(activePanel)
    /\ toggles' = (toggles + 1) % 2
    /\ UNCHANGED <<running, cwd, index, stFiles, stError, items, error, reads, stats, enters, issued, fetch>>

\* key.escape or 'q': exit() unmounts the app
Quit ==
    /\ running
    /\ running' = FALSE
    /\ UNCHANGED <<activePanel, cwd, index, stFiles, stError, items, error, reads, stats, enters, issued, toggles, fetch>>

\* key.upArrow
upIndex(i) == Max(i - 1, 0)

Up ==
    /\ running
    /\ index' = [index EXCEPT ![activePanel] = upIndex(index[activePanel])]
    /\ UNCHANGED <<running, activePanel, cwd, stFiles, stError, items, error, reads, stats, enters, issued, toggles, fetch>>

\* key.downArrow: (prev.leftFiles?.length || 1) - 1
downIndex(i, files) == Min(i + 1, (IF Len(files) = 0 THEN 1 ELSE Len(files)) - 1)

Other(p) == IF p = "left" THEN "right" ELSE "left"

\* Down with the panel test inverted: it moves the inactive panel's cursor.
DownInactive ==
    /\ running
    /\ index' = [index EXCEPT ![Other(activePanel)] =
                    downIndex(index[Other(activePanel)], stFiles[Other(activePanel)])]
    /\ UNCHANGED <<running, activePanel, cwd, stFiles, stError, items, error, reads, stats, enters, issued, toggles, fetch>>

Down ==
    /\ running
    /\ index' = [index EXCEPT ![activePanel] = downIndex(index[activePanel], stFiles[activePanel])]
    /\ UNCHANGED <<running, activePanel, cwd, stFiles, stError, items, error, reads, stats, enters, issued, toggles, fetch>>

\* currentFiles[currentIndex] is undefined past the end of the array
HasSelected(p) == index[p] + 1 \in 1..Len(items[p])

selectedItem(p) == items[p][index[p] + 1]

\* What the Enter handler holds when it reaches `await fs.stat(newPath)`.
statCall(p) ==
    [panel |-> p,
     name |-> selectedItem(p).name,
     isDirectory |-> selectedItem(p).isDirectory,
     currentCwd |-> cwd[p],
     newPath |-> resolve(cwd[p], selectedItem(p).name)]

\* An Enter handler without the `if (!selectedItem) return` guard: with no
\* selected item it goes on to stat the panel's own path.
statsAfterEnterUnguarded(p) ==
    IF HasSelected(p) THEN stats (+) SetToBag({statCall(p)})
    ELSE stats (+) SetToBag({[panel |-> p, name |-> "", isDirectory |-> FALSE,
                              currentCwd |-> cwd[p], newPath |-> cwd[p]]})

\* without a selected item the handler returns before fs.stat
statsAfterEnter(p) ==
    IF HasSelected(p) THEN stats (+) SetToBag({statCall(p)}) ELSE stats

\* key.return up to `await fs.stat(newPath)`
Enter ==
    /\ running
    /\ enters < MaxEnters
    /\ enters' = enters + 1
    /\ stats' = statsAfterEnter(activePanel)
    /\ issued' = IF HasSelected(activePanel) /\ StatKind(statCall(activePanel).newPath) = "dir"
                 THEN [issued EXCEPT ![activePanel] = statCall(activePanel).newPath]
                 ELSE issued
    /\ UNCHANGED <<running, activePanel, cwd, index, stFiles, stError, items, error, reads, toggles, fetch>>

----------------------------------------------------------------------------
(* Asynchronous completions *)

\* A useFileTree effect that runs on mount only (empty dependency list).
readsMountOnly(p, newPath) == reads

\* The useFileTree effect runs again only when targetCwd changed.
readsAfterRender(p, newPath) ==
    IF newPath # cwd[p] THEN [reads EXCEPT ![p] = @ (+) SetToBag({newPath})] ELSE reads

\* StatDir that also moves the focus to the panel it navigated.
StatDirFocus(s) ==
    /\ running
    /\ BagIn(s, stats)
    /\ StatKind(s.newPath) = "dir"
    /\ stats' = stats (-) SetToBag({s})
    /\ cwd' = [cwd EXCEPT ![s.panel] = s.newPath]
    /\ index' = [index EXCEPT ![s.panel] = 0]
    /\ reads' = readsAfterRender(s.panel, s.newPath)
    /\ activePanel' = s.panel
    /\ UNCHANGED <<running, stFiles, stError, items, error, enters, issued, toggles, fetch>>

\* StatDir that picks the panel by the focus at completion time
\* (prev.activePanel) instead of the focus captured at Enter.
StatDirActive(s) ==
    /\ running
    /\ BagIn(s, stats)
    /\ StatKind(s.newPath) = "dir"
    /\ stats' = stats (-) SetToBag({s})
    /\ cwd' = [cwd EXCEPT ![activePanel] = s.newPath]
    /\ index' = [index EXCEPT ![activePanel] = 0]
    /\ reads' = readsAfterRender(activePanel, s.newPath)
    /\ UNCHANGED <<running, activePanel, stFiles, stError, items, error, enters, issued, toggles, fetch>>

\* stats.isDirectory(): the path and the index of the panel captured at Enter
StatDir(s) ==
    /\ running
    /\ BagIn(s, stats)
    /\ StatKind(s.newPath) = "dir"
    /\ stats' = stats (-) SetToBag({s})
    /\ cwd' = [cwd EXCEPT ![s.panel] = s.newPath]
    /\ index' = [index EXCEPT ![s.panel] = 0]
    /\ reads' = readsAfterRender(s.panel, s.newPath)
    /\ UNCHANGED <<running, activePanel, stFiles, stError, items, error, enters, issued, toggles, fetch>>

\* StatFile without the stats.isDirectory() test: the panel moves to the file.
StatFileNavigates(s) ==
    /\ running
    /\ BagIn(s, stats)
    /\ StatKind(s.newPath) = "file"
    /\ stats' = stats (-) SetToBag({s})
    /\ cwd' = [cwd EXCEPT ![s.panel] = s.newPath]
    /\ index' = [index EXCEPT ![s.panel] = 0]
    /\ reads' = readsAfterRender(s.panel, s.newPath)
    /\ UNCHANGED <<running, activePanel, stFiles, stError, items, error, enters, issued, toggles, fetch>>

\* a file: console.log only
StatFile(s) ==
    /\ running
    /\ BagIn(s, stats)
    /\ StatKind(s.newPath) = "file"
    /\ stats' = stats (-) SetToBag({s})
    /\ UNCHANGED <<running, activePanel, cwd, index, stFiles, stError, items, error, reads, enters, issued, toggles, fetch>>

\* StatError whose catch block also resets the panel's index.
StatErrorResetsIndex(s) ==
    /\ running
    /\ BagIn(s, stats)
    /\ StatKind(s.newPath) = "error"
    /\ stats' = stats (-) SetToBag({s})
    /\ stError' = [stError EXCEPT ![s.panel] = AccessError(s.name)]
    /\ index' = [index EXCEPT ![s.panel] = 0]
    /\ UNCHANGED <<running, activePanel, cwd, stFiles, items, error, reads, enters, issued, toggles, fetch>>

\* fs.stat rejected: the catch block writes state.<panel>FilesError
StatError(s) ==
    /\ running
    /\ BagIn(s, stats)
    /\ StatKind(s.newPath) = "error"
    /\ stats' = stats (-) SetToBag({s})
    /\ stError' = [stError EXCEPT ![s.panel] = AccessError(s.name)]
    /\ UNCHANGED <<running, activePanel, cwd, index, stFiles, items, error, reads, enters, issued, toggles, fetch>>

\* ReadOk as the first draft wrote it: the try block never clears the error.
ReadOkKeepError(p, path) ==
    /\ running
    /\ BagIn(path, reads[p])
    /\ Readable(path)
    /\ reads' = [reads EXCEPT ![p] = @ (-) SetToBag({path})]
    /\ \E order \in Orders(Dirents(path)) :
          /\ items' = [items EXCEPT ![p] = finalItems(path, order)]
          /\ stFiles' = [stFiles EXCEPT ![p] = finalItems(path, order)]
    /\ stError' = [stError EXCEPT ![p] = error[p]]
    /\ UNCHANGED <<running, activePanel, cwd, index, error, stats, enters, issued, toggles, fetch>>

\* ReadOk without the effect that copies the hook's items into the state.
ReadOkNoSync(p, path) ==
    /\ running
    /\ BagIn(path, reads[p])
    /\ Readable(path)
    /\ reads' = [reads EXCEPT ![p] = @ (-) SetToBag({path})]
    /\ \E order \in Orders(Dirents(path)) :
          items' = [items EXCEPT ![p] = finalItems(path, order)]
    /\ error' = [error EXCEPT ![p] = Null]
    /\ stError' = [stError EXCEPT ![p] = Null]
    /\ UNCHANGED <<running, activePanel, cwd, index, stFiles, stats, enters, issued, toggles, fetch>>

\* fs.readdir resolved: setItems, setError(null), then the sync effect
ReadOk(p, path) ==
    /\ running
    /\ BagIn(path, reads[p])
    /\ Readable(path)
    /\ reads' = [reads EXCEPT ![p] = @ (-) SetToBag({path})]
    /\ \E order \in Orders(Dirents(path)) :
          /\ items' = [items EXCEPT ![p] = finalItems(path, order)]
          /\ stFiles' = [stFiles EXCEPT ![p] = finalItems(path, order)]
    /\ error' = [error EXCEPT ![p] = Null]
    /\ stError' = [stError EXCEPT ![p] = Null]
    /\ UNCHANGED <<running, activePanel, cwd, index, stats, enters, issued, toggles, fetch>>

\* ReadFail whose state updates still apply after exit() unmounted the app.
ReadFailUnmounted(p, path) ==
    /\ BagIn(path, reads[p])
    /\ ~Readable(path)
    /\ reads' = [reads EXCEPT ![p] = @ (-) SetToBag({path})]
    /\ items' = [items EXCEPT ![p] = <<>>]
    /\ stFiles' = [stFiles EXCEPT ![p] = <<>>]
    /\ error' = [error EXCEPT ![p] = ReadError(path)]
    /\ stError' = [stError EXCEPT ![p] = ReadError(path)]
    /\ UNCHANGED <<running, activePanel, cwd, index, stats, enters, issued, toggles, fetch>>

\* ReadFail whose catch block does not call setItems([]).
ReadFailKeepItems(p, path) ==
    /\ running
    /\ BagIn(path, reads[p])
    /\ ~Readable(path)
    /\ reads' = [reads EXCEPT ![p] = @ (-) SetToBag({path})]
    /\ error' = [error EXCEPT ![p] = ReadError(path)]
    /\ stError' = [stError EXCEPT ![p] = ReadError(path)]
    /\ UNCHANGED <<running, activePanel, cwd, index, items, stFiles, stats, enters, issued, toggles, fetch>>

\* fs.readdir rejected: setError, setItems([]), then the sync effect
ReadFail(p, path) ==
    /\ running
    /\ BagIn(path, reads[p])
    /\ ~Readable(path)
    /\ reads' = [reads EXCEPT ![p] = @ (-) SetToBag({path})]
    /\ items' = [items EXCEPT ![p] = <<>>]
    /\ stFiles' = [stFiles EXCEPT ![p] = <<>>]
    /\ error' = [error EXCEPT ![p] = ReadError(path)]
    /\ stError' = [stError EXCEPT ![p] = ReadError(path)]
    /\ UNCHANGED <<running, activePanel, cwd, index, stats, enters, issued, toggles, fetch>>

StatDone == \E s \in BagToSet(stats) : StatDir(s) \/ StatFile(s) \/ StatError(s)

ReadDone == \E p \in Panels : \E path \in BagToSet(reads[p]) : ReadOk(p, path) \/ ReadFail(p, path)

Next == Tab \/ Quit \/ Up \/ Down \/ Enter \/ StatDone \/ ReadDone

Spec == Init /\ [][Next]_vars

----------------------------------------------------------------------------
(* fetchFileTree on its own: every short readdir result, in every order *)

ProbeNames == {"docs", "notes.txt", "README", "vmlinuz"}

ProbePaths == {Root, Home, <<"home", "link">>}

ProbeDirents ==
    {d \in UNION {[1..n -> [name : ProbeNames, isDirectory : BOOLEAN]] : n \in 0..MaxEntries} :
        \A i, j \in 1..Len(d) : i # j => d[i].name # d[j].name}

InitRead ==
    /\ InitSession
    /\ fetch \in {[targetCwd |-> p, dirents |-> d, done |-> FALSE, finalItems |-> <<>>] :
                     p \in ProbePaths, d \in ProbeDirents}

\* the try block of fetchFileTree after readdir resolved
FetchFileTree ==
    /\ ~fetch.done
    /\ fetch' = [fetch EXCEPT !.done = TRUE,
                              !.finalItems = finalItems(fetch.targetCwd, fetch.dirents)]
    /\ UNCHANGED <<running, activePanel, cwd, index, stFiles, stError, items, error,
                   reads, stats, enters, issued, toggles>>

NextRead == FetchFileTree

SpecRead == InitRead /\ [][NextRead]_vars

----------------------------------------------------------------------------
(* What the renderer is given: the hook values shadow the state's copies *)

snapshot ==
    [p \in Panels |-> [dir |-> cwd[p], items |-> items[p], selectedIndex |-> index[p],
                       isActive |-> (activePanel = p), error |-> error[p]]]

\* What FileTree renders for a panel: one row per item of the listing, from
\* the first item to the last (there is no scroll offset and no viewport
\* height), the row whose position equals selectedIndex being highlighted.
FileTree(its, selectedIndex) ==
    [i \in 1..Len(its) |->
        [name |-> its[i].name, isDirectory |-> its[i].isDirectory,
         isSelected |-> (i - 1 = selectedIndex)]]

----------------------------------------------------------------------------
(* What a read of path p yields in this tree, whatever order readdir uses *)

listingOf(p) == IF Readable(p) THEN finalItems(p, CHOOSE o \in Orders(Dirents(p)) : TRUE) ELSE <<>>

errorOf(p) == IF Readable(p) THEN Null ELSE ReadError(p)

----------------------------------------------------------------------------
(* Claims *)

\* C1: stale-response guard. A read completion is applied to a panel only
\* if the path it was issued for is still the panel's path; so once no read
\* of a panel is in flight, its listing and error are those of its current
\* path (after navigating to A and then to B, with A's read completing
\* last, the panel shows B).
StaleResponseGuard ==
    \A p \in Panels :
        reads[p] = EmptyBag => items[p] = listingOf(cwd[p]) /\ error[p] = errorOf(cwd[p])

\* C2: in every reachable state each panel's cursor is a valid index of its
\* displayed listing, and is 0 when the displayed listing is empty.
CursorInBounds ==
    \A p \in Panels :
        IF Len(items[p]) = 0 THEN index[p] = 0 ELSE index[p] \in 0..(Len(items[p]) - 1)

\* C3: a failed directory read leaves the panel with a non-empty error, an
\* empty listing and cursor 0, whatever cursor movement happened while the
\* read was in flight.
FailedReadResetsPanel ==
    [][\A p \in Panels : \A path \in DirPaths :
          ReadFail(p, path) => error'[p] # Null /\ items'[p] = <<>> /\ index'[p] = 0]_vars

\* C4: when fs.stat of the activated entry rejects, the session keeps
\* running and the message is the acting panel's error in the render
\* snapshot.
StatErrorSurfaced ==
    [][\A s \in BagToSet(stats) :
          StatError(s) => running' /\ snapshot'[s.panel].error = AccessError(s.name)]_vars

TogglePreserves ==
    /\ [](toggles = 0 <=> activePanel = "left")
    /\ [][toggles' # toggles =>
            cwd' = cwd /\ index' = index /\ items' = items /\ stFiles' = stFiles]_vars

\* back on the left panel after the right one was active and moved its cursor
TogglePreservesWitness ==
    activePanel = "left" /\ toggles = 0 /\ index["right"] > 0

\* C7: the active panel is always left or right, and it changes only in a
\* step that processes a toggle.
OnlyToggleChangesActive ==
    /\ [](activePanel \in Panels)
    /\ [][activePanel' # activePanel => toggles' # toggles]_vars

\* the right panel is still active after it navigated, was read and moved
OnlyToggleChangesActiveWitness ==
    /\ activePanel = "right" /\ cwd["right"] = Root /\ index["right"] > 0
    /\ items["right"] = listingOf(Root) /\ ~BagIn(Home, reads["right"])

\* C8: a cursor move changes only the active panel's cursor: the inactive
\* panel's cursor, every path, every listing and the active panel stay.
MoveCursorFrame ==
    [][(index' # index /\ stats' = stats) =>
          /\ index'[Other(activePanel)] = index[Other(activePanel)]
          /\ cwd' = cwd /\ items' = items /\ stFiles' = stFiles
          /\ activePanel' = activePanel]_vars

\* right after one toggle, only the right panel's cursor has moved
MoveCursorFrameWitness ==
    activePanel = "right" /\ toggles = 1 /\ index["right"] = 1 /\ index["left"] = 0

\* directories before files, each group ascending in collation order, the
\* synthetic parent entry nowhere but first
Ordered(l) ==
    \A i, j \in 1..Len(l) :
        i < j => /\ l[j] # DotDot
                 /\ (l[i].isDirectory \/ ~l[j].isDirectory)
                 /\ (l[i] # DotDot /\ l[i].isDirectory = l[j].isDirectory
                        => Rank(l[i].name) <= Rank(l[j].name))

\* C9: every listing a successful read produces has its directories before
\* its files, each group in ascending name order, and `..`, if present,
\* first.
SortedListing == fetch.done => Ordered(fetch.finalItems)

\* a three-entry result that readdir returned out of order
SortedListingWitness ==
    /\ fetch.done /\ Len(fetch.dirents) = 3 /\ ~Ordered(fetch.dirents)
    /\ fetch.targetCwd = Home /\ Len(fetch.finalItems) = 4

HasParentEntry(l) == \E i \in 1..Len(l) : l[i] = DotDot

ErrorUntilSuccessfulRead ==
    [][\A p \in Panels :
          /\ (error[p] # Null /\ error'[p] = Null) =>
                \E path \in BagToSet(reads[p]) :
                    Readable(path) /\ reads'[p] = reads[p] (-) SetToBag({path})
          /\ (stError[p] # Null /\ stError'[p] = Null) =>
                \E path \in BagToSet(reads[p]) :
                    Readable(path) /\ reads'[p] = reads[p] (-) SetToBag({path})
          /\ \A path \in BagToSet(reads[p]) :
                (reads'[p] = reads[p] (-) SetToBag({path}) /\ Readable(path) /\ path = cwd[p]) =>
                    /\ error'[p] = Null /\ stError'[p] = Null
                    /\ items'[p] = listingOf(path)]_vars

\* the left panel shows /lost's read error while the read of its current
\* path /home, which will clear it, is in flight
ErrorUntilSuccessfulReadWitness ==
    /\ error["left"] = ReadError(<<"lost">>) /\ cwd["left"] = Home
    /\ BagIn(Home, reads["left"])

\* C13: activating a regular file is never silently ignored: the step in
\* which its stat reports a file changes some session state or surfaces an
\* error.
FileActivationObservable ==
    [][\A s \in BagToSet(stats) :
          (stats' = stats (-) SetToBag({s}) /\ StatKind(s.newPath) = "file") =>
              <<activePanel, cwd, index, stFiles, stError, items, error, reads>>'
                  # <<activePanel, cwd, index, stFiles, stError, items, error, reads>>]_vars

\* C14: handlers are atomic: while an input handler has read the session
\* state and not yet applied its change (it is suspended at fs.stat), the
\* only thing processed is that handler's own continuation.
HandlersAtomic ==
    [][stats # EmptyBag => BagCardinality(stats') = BagCardinality(stats) - 1]_vars

\* C15: an activation changes the panel's path only if the highlighted
\* listing entry is flagged isDirectory (`..` is).
PathChangeOnlyForDirectoryEntry ==
    [][\A s \in BagToSet(stats) :
          (stats' = stats (-) SetToBag({s}) /\ cwd'[s.panel] # cwd[s.panel]) => s.isDirectory]_vars

\* C16: a quit event ends the session: the step that ends it changes no
\* path, cursor, listing or active panel, and nothing is processed after it.
QuitTerminates ==
    [][~running' =>
          /\ running
          /\ cwd' = cwd /\ index' = index /\ activePanel' = activePanel
          /\ items' = items /\ error' = error /\ stFiles' = stFiles /\ stError' = stError]_vars

\* the session was quit with a read and an Enter handler still in flight
QuitTerminatesWitness ==
    ~running /\ stats # EmptyBag /\ BagIn(<<"lost">>, reads["left"]) /\ index["left"] > 0

\* the state the session starts in, with no startup arguments
StartState ==
    /\ cwd["left"] = Root /\ cwd["right"] = Home
    /\ index["left"] = 0 /\ index["right"] = 0
    /\ activePanel = "left" /\ activePanel \in Panels

\* C17: at session start the left panel's path is the root, the right
\* panel's path is the home directory, both cursors are 0 and the left panel
\* is the one active panel.
SessionStart == StartState /\ [][TRUE]_vars

\* the session as started: nothing pressed, both first reads in flight
SessionStartWitness ==
    /\ StartState /\ running /\ enters = 0 /\ toggles = 0
    /\ items = [p \in Panels |-> <<>>]
    /\ BagIn(Root, reads["left"]) /\ BagIn(Home, reads["right"])

\* C20: in every reachable state the highlighted entry of each panel with a
\* non-empty listing is inside the slice of the listing that is rendered:
\* one of the rendered rows is the cursor's row.
HighlightInRenderedSlice ==
    \A p \in Panels :
        items[p] # <<>> =>
            \E i \in DOMAIN FileTree(items[p], index[p]) :
                FileTree(items[p], index[p])[i].isSelected

\* C21: cursor movement is a saturating clamp: a step that only moves a
\* cursor (an Up or Down event) moves the active panel's cursor to
\* min(cursor+1, len-1) or max(cursor-1, 0), and moves nothing when the
\* panel's listing is empty.
MoveCursorClamp ==
    [][(index' # index /\ stats' = stats) =>
          LET p == activePanel
              n == Len(items[p])
          IN  /\ n > 0
              /\ index'[p] \in {Min(index[p] + 1, n - 1), Max(index[p] - 1, 0)}
              /\ index'[Other(p)] = index[Other(p)]]_vars

\* C22: an Enter event with no addressable entry (empty listing, or cursor
\* past the end) is a no-op: no stat is issued and no path, cursor, listing,
\* error or active panel changes.
EnterWithoutEntryNoOp ==
    [][(enters' = enters + 1 /\ ~HasSelected(activePanel)) =>
          /\ stats' = stats /\ reads' = reads
          /\ cwd' = cwd /\ index' = index /\ activePanel' = activePanel
          /\ items' = items /\ stFiles' = stFiles
          /\ error' = error /\ stError' = stError]_vars

\* Enter was pressed once before either first read completed: both
\* listings are still empty, and the handler returned without a stat
EnterWithoutEntryNoOpWitness ==
    /\ enters = 1 /\ stats = EmptyBag /\ cwd["left"] = Root /\ cwd["right"] = Home
    /\ items = [p \in Panels |-> <<>>]
    /\ BagIn(Root, reads["left"]) /\ BagIn(Home, reads["right"])

\* C23: when the stat of an activated entry fails or reports a
\* non-directory, no panel's path, cursor or listing changes and the active
\* panel is unchanged; only the acting panel's error may change.
FailedActivationFrame ==
    [][\A s \in BagToSet(stats) :
          (stats' = stats (-) SetToBag({s}) /\ StatKind(s.newPath) # "dir") =>
              /\ cwd' = cwd /\ index' = index /\ activePanel' = activePanel
              /\ items' = items /\ stFiles' = stFiles /\ reads' = reads
              /\ error' = error
              /\ stError'[Other(s.panel)] = stError[Other(s.panel)]]_vars

\* the right panel after Enter on the dangling link `gone`: the stat error
\* is recorded and the cursor stays on the entry
FailedActivationFrameWitness ==
    /\ stError["right"] = AccessError("gone") /\ cwd["right"] = Home
    /\ index["right"] = 1 /\ Len(items["right"]) = 3 /\ stats = EmptyBag

ActivationTargetsCapturedPanel ==
    [][/\ (enters' = enters + 1 /\ stats' # stats) =>
              \E s \in BagToSet(stats') : s.panel = activePanel /\ stats' = stats (+) SetToBag({s})
       /\ \A s \in BagToSet(stats) :
              stats' = stats (-) SetToBag({s}) =>
                  /\ StatKind(s.newPath) = "dir" =>
                        cwd'[s.panel] = s.newPath /\ index'[s.panel] = 0
                  /\ StatKind(s.newPath) = "error" =>
                        stError'[s.panel] = AccessError(s.name)
                  /\ cwd'[Other(s.panel)] = cwd[Other(s.panel)]
                  /\ index'[Other(s.panel)] = index[Other(s.panel)]
                  /\ items'[Other(s.panel)] = items[Other(s.panel)]
                  /\ stFiles'[Other(s.panel)] = stFiles[Other(s.panel)]
                  /\ error'[Other(s.panel)] = error[Other(s.panel)]
                  /\ stError'[Other(s.panel)] = stError[Other(s.panel)]
                  /\ reads'[Other(s.panel)] = reads[Other(s.panel)]]_vars

\* the right panel has the focus and an untouched cursor while the left
\* panel has been moved to /home by one Enter and a second Enter issued on
\* it from / is still at fs.stat
ActivationTargetsCapturedPanelWitness ==
    /\ activePanel = "right" /\ cwd["left"] = Home /\ cwd["right"] = Home
    /\ index["right"] = 2
    /\ \E s \in BagToSet(stats) : s.panel = "left" /\ s.currentCwd = Root

\* C27: a panel's path changes only when the stat of an activation reports
\* a directory, to that activation's target, and every path a panel holds
\* is a directory.
PathChangesOnlyByDirectoryStat ==
    [][/\ cwd' # cwd =>
              \E s \in BagToSet(stats) :
                  /\ stats' = stats (-) SetToBag({s})
                  /\ StatKind(s.newPath) = "dir"
                  /\ cwd' = [cwd EXCEPT ![s.panel] = s.newPath]
       /\ \A p \in Panels : StatKind(cwd'[p]) = "dir"]_vars

\* both panels have left their initial paths: left is at /lost, right at
\* the linked directory /home/link
PathChangesOnlyByDirectoryStatWitness ==
    cwd["left"] = <<"lost">> /\ cwd["right"] = <<"home", "link">>

\* C28: for each panel, the result of its reads has an empty listing
\* whenever the read error is present and no error whenever the listing is
\* non-empty.
ReadResultExclusive ==
    \A p \in Panels :
        /\ error[p] # Null => items[p] = <<>>
        /\ items[p] # <<>> => error[p] = Null

\* the reads of /home and /lost of the left panel completed out of order:
\* the panel is at /home and holds /lost's error with an empty listing
ReadResultExclusiveWitness ==
    /\ cwd["left"] = Home /\ reads["left"] = EmptyBag
    /\ error["left"] = ReadError(<<"lost">>) /\ items["left"] = <<>>

\* C29: round trip: when the stat of an activation of `..` issued from
\* path resolve(q, d), d a child of directory q, completes, the panel's path
\* is q and its cursor is 0.
RoundTrip ==
    [][\A s \in BagToSet(stats) :
          (stats' = stats (-) SetToBag({s}) /\ s.name = "..") =>
              \A q \in DirPaths : \A d \in Dirents(q) :
                  s.currentCwd = resolve(q, d.name) =>
                      cwd'[s.panel] = q /\ index'[s.panel] = 0]_vars

\* the left panel went from / into home and, with /home's listing shown,
\* back through `..`: it is at / again with cursor 0, /home's listing still
\* displayed while the read of / is in flight
RoundTripWitness ==
    /\ cwd["left"] = Root /\ index["left"] = 0 /\ BagIn(Root, reads["left"])
    /\ items["left"] = listingOf(Home) /\ stats = EmptyBag /\ enters = 2

\* C30: whenever a key can be processed, the listing copy in the app state
\* of each panel equals the listing the read hook returns for it.
ListingCopiesAgree == \A p \in Panels : stFiles[p] = items[p]

\* Down has moved the left cursor to the last row of the root listing,
\* clamped by the state's copy, which equals the hook's listing
ListingCopiesAgreeWitness ==
    /\ Len(items["left"]) = 3 /\ stFiles["left"] = items["left"] /\ index["left"] = 2

====
